---- MODULE Spec2Model ----
(***************************************************************************)
(* Model of CreamSocketClient (src/src/CreamSocketClient.js, the class of  *)
(* lines 12-362: the manual RFC 6455 handshake over a net.Socket, the      *)
(* frame codec, the inbound data handler and the heartbeat timer).         *)
(*                                                                         *)
(* Buffers are sequences of bytes (0..255).  JavaScript strings are        *)
(* sequences of code points; Buffer.from(string) and buffer.toString()     *)
(* are the UTF-8 conversions.                                              *)
(***************************************************************************)
EXTENDS Integers, Sequences, FiniteSets, TLC

\* ------------------------------------------------------------------------
\* Bounds of the model
\* ------------------------------------------------------------------------

\* the codec specification enumerates every string of at most this length
MaxSmallLen == 2

\* ------------------------------------------------------------------------
\* JavaScript number operators used by the codec
\* ------------------------------------------------------------------------

RECURSIVE BitAnd(_, _)
\* a & b on non-negative operands
BitAnd(a, b) ==
  IF a = 0 \/ b = 0 THEN 0
  ELSE (a % 2) * (b % 2) + 2 * BitAnd(a \div 2, b \div 2)

RECURSIVE BitOr(_, _)
\* a | b on non-negative operands
BitOr(a, b) ==
  IF a = 0 THEN b
  ELSE IF b = 0 THEN a
  ELSE (IF a % 2 = 1 \/ b % 2 = 1 THEN 1 ELSE 0) + 2 * BitOr(a \div 2, b \div 2)

RECURSIVE BitXor(_, _)
\* a ^ b on non-negative operands
BitXor(a, b) ==
  IF a = 0 THEN b
  ELSE IF b = 0 THEN a
  ELSE ((a + b) % 2) + 2 * BitXor(a \div 2, b \div 2)

\* x >> n: the left operand is converted to a signed 32-bit integer (the
\* identity on 0 .. 2^31-1, the only values a length of this model takes) and
\* the shift count is taken modulo 32.
ShiftRight(x, n) == x \div (2 ^ (n % 32))

\* ------------------------------------------------------------------------
\* UTF-8: Buffer.from(string) and buffer.toString()
\* ------------------------------------------------------------------------

\* U+FFFD, what the decoder substitutes for a byte sequence that is not UTF-8
ReplacementChar == 65533

Utf8Bytes(c) ==
  IF c < 128 THEN <<c>>
  ELSE IF c < 2048 THEN <<192 + (c \div 64), 128 + (c % 64)>>
  ELSE <<224 + (c \div 4096), 128 + ((c \div 64) % 64), 128 + (c % 64)>>

RECURSIVE Utf8Encode(_)
Utf8Encode(str) ==
  IF str = <<>> THEN <<>> ELSE Utf8Bytes(Head(str)) \o Utf8Encode(Tail(str))

IsAscii(s) == \A i \in 1..Len(s) : s[i] < 128

\* Buffer.from(message) for a string message.  A string of ASCII characters
\* is its own encoding; the test only spares the recursion on long strings.
BufferFrom(message) ==
  IF IsAscii(message) THEN message ELSE Utf8Encode(message)

IsContinuation(b) == b >= 128 /\ b < 192

\* the character at a buffer of one byte, or of a two-byte sequence
Utf8Char(buf) ==
  IF buf[1] < 128 THEN buf[1]
  ELSE IF Len(buf) = 2 THEN (buf[1] - 192) * 64 + (buf[2] - 128)
  ELSE ReplacementChar

\* whether buf[i] is the second byte of a two-byte sequence
IsSecondByte(buf, i) ==
  i > 1 /\ IsContinuation(buf[i]) /\ buf[i - 1] >= 194 /\ buf[i - 1] < 224

RECURSIVE Utf8Decode(_)
\* One- and two-byte sequences are decoded; every other byte below 0xE0 is
\* replaced by U+FFFD, one replacement per byte, as Node's decoder does.
\* The model delivers no byte from 0xE0 up.  The buffer is decoded in two
\* halves, cut where no two-byte sequence is cut.
Utf8Decode(buf) ==
  IF buf = <<>> THEN <<>>
  ELSE IF Len(buf) = 1 \/ (Len(buf) = 2 /\ IsSecondByte(buf, 2)) THEN <<Utf8Char(buf)>>
  ELSE LET half == Len(buf) \div 2
           cut == IF IsSecondByte(buf, half + 1) THEN half + 1 ELSE half
       IN Utf8Decode(SubSeq(buf, 1, cut)) \o Utf8Decode(SubSeq(buf, cut + 1, Len(buf)))

\* buffer.toString()
BufferToString(buf) ==
  IF IsAscii(buf) THEN buf ELSE Utf8Decode(buf)

\* ------------------------------------------------------------------------
\* The frame codec
\* ------------------------------------------------------------------------

\* _encodeFrame that pushes the opcode without the FIN bit
EncodeFrameWithoutFin(message, opcode) ==
  LET payload == BufferFrom(message)
      payloadLength == Len(payload)
      first == <<opcode>>
      len ==
        IF payloadLength < 126 THEN <<payloadLength>>
        ELSE IF payloadLength < 65536
          THEN <<126, BitAnd(ShiftRight(payloadLength, 8), 255),
                      BitAnd(payloadLength, 255)>>
        ELSE <<127>> \o
             [k \in 1..8 |-> BitAnd(ShiftRight(payloadLength, (8 - k) * 8), 255)]
  IN first \o len \o payload

\* _encodeFrame with the first boundary off by one (<= 126 for < 126)
EncodeFrameShortUpTo126(message, opcode) ==
  LET payload == BufferFrom(message)
      payloadLength == Len(payload)
      first == <<BitOr(128, opcode)>>
      len ==
        IF payloadLength <= 126 THEN <<payloadLength>>
        ELSE IF payloadLength < 65536
          THEN <<126, BitAnd(ShiftRight(payloadLength, 8), 255),
                      BitAnd(payloadLength, 255)>>
        ELSE <<127>> \o
             [k \in 1..8 |-> BitAnd(ShiftRight(payloadLength, (8 - k) * 8), 255)]
  IN first \o len \o payload

\* _encodeFrame(message, opcode)
EncodeFrame(message, opcode) ==
  LET payload == BufferFrom(message)
      payloadLength == Len(payload)
      first == <<BitOr(128, opcode)>>
      len ==
        IF payloadLength < 126 THEN <<payloadLength>>
        ELSE IF payloadLength < 65536
          THEN <<126, BitAnd(ShiftRight(payloadLength, 8), 255),
                      BitAnd(payloadLength, 255)>>
        ELSE <<127>> \o
             [k \in 1..8 |-> BitAnd(ShiftRight(payloadLength, (8 - k) * 8), 255)]
  IN first \o len \o payload

\* the value _decodeFrame returns for a buffer that holds no whole frame
Null == [null |-> TRUE]

\* the largest length the model can represent; a decoded length beyond it is
\* held at this value, which no buffer of the model reaches
MaxInt == 2147483647

\* buffer.readUInt16BE(2)
ReadUInt16BE(buffer) == buffer[3] * 256 + buffer[4]

\* Number(buffer.readBigUInt64BE(2))
ReadBigUInt64BE(buffer) ==
  IF \E i \in 3..6 : buffer[i] # 0 THEN MaxInt
  ELSE IF buffer[7] >= 128 THEN MaxInt
  ELSE ((buffer[7] * 256 + buffer[8]) * 256 + buffer[9]) * 256 + buffer[10]

\* decodedPayload[i] = payload[i] ^ maskingKey[i % 4]  (i counted from 0)
Unmask(payload, maskingKey) ==
  [i \in 1..Len(payload) |-> BitXor(payload[i], maskingKey[((i - 1) % 4) + 1])]

\* _decodeFrame(buffer).  The field `consumed` is not part of the returned
\* object: it records offset + payloadLength, the bytes the frame occupies.
DecodeFrame(buffer) ==
  IF Len(buffer) < 2 THEN Null
  ELSE
    LET firstByte == buffer[1]
        secondByte == buffer[2]
        fin == ShiftRight(BitAnd(firstByte, 128), 7)
        opcode == BitAnd(firstByte, 15)
        masked == ShiftRight(BitAnd(secondByte, 128), 7)
        len7 == BitAnd(secondByte, 127)
    IN
    IF len7 = 126 /\ Len(buffer) < 4 THEN Null
    ELSE IF len7 = 127 /\ Len(buffer) < 10 THEN Null
    ELSE
      LET payloadLength ==
            IF len7 = 126 THEN ReadUInt16BE(buffer)
            ELSE IF len7 = 127 THEN ReadBigUInt64BE(buffer)
            ELSE len7
          offset0 == IF len7 = 126 THEN 4 ELSE IF len7 = 127 THEN 10 ELSE 2
      IN
      IF masked = 1 /\ Len(buffer) < offset0 + 4 THEN Null
      ELSE
        LET offset == IF masked = 1 THEN offset0 + 4 ELSE offset0
        IN
        IF Len(buffer) - offset < payloadLength THEN Null
        ELSE
          LET payload == SubSeq(buffer, offset + 1, offset + payloadLength)
              decodedPayload ==
                IF masked = 1
                  THEN Unmask(payload, SubSeq(buffer, offset0 + 1, offset0 + 4))
                  ELSE payload
          IN [fin |-> fin, opcode |-> opcode,
              payload |-> BufferToString(decodedPayload),
              consumed |-> offset + payloadLength]

\* ------------------------------------------------------------------------
\* The text of the opening handshake, as ASCII
\* ------------------------------------------------------------------------

\* the text _isHandshakeResponse looks for: '101 Switching Protocols'
SwitchingProtocols ==
  <<49, 48, 49, 32, 83, 119, 105, 116, 99, 104, 105, 110, 103, 32, 80, 114,
  111, 116, 111, 99, 111, 108, 115>>

\* the line separator: '\r\n'
CRLF ==
  <<13, 10>>

\* the separator of a header name and its value: ': '
ColonSpace ==
  <<58, 32>>

\* the key _completeHandshake reads: 'sec-websocket-accept'
SecWebSocketAccept ==
  <<115, 101, 99, 45, 119, 101, 98, 115, 111, 99, 107, 101, 116, 45, 97, 99,
  99, 101, 112, 116>>

\* the request line, for the default path: 'GET / HTTP/1.1'
RequestLine ==
  <<71, 69, 84, 32, 47, 32, 72, 84, 84, 80, 47, 49, 46, 49>>

\* the Host line, for host localhost and port 8080: 'Host: localhost:8080'
HostHeader ==
  <<72, 111, 115, 116, 58, 32, 108, 111, 99, 97, 108, 104, 111, 115, 116,
  58, 56, 48, 56, 48>>

\* header of the request: 'Upgrade: websocket'
UpgradeHeader ==
  <<85, 112, 103, 114, 97, 100, 101, 58, 32, 119, 101, 98, 115, 111, 99,
  107, 101, 116>>

\* header of the request: 'Connection: Upgrade'
ConnectionHeader ==
  <<67, 111, 110, 110, 101, 99, 116, 105, 111, 110, 58, 32, 85, 112, 103,
  114, 97, 100, 101>>

\* start of the key header: 'Sec-WebSocket-Key: '
KeyHeader ==
  <<83, 101, 99, 45, 87, 101, 98, 83, 111, 99, 107, 101, 116, 45, 75, 101,
  121, 58, 32>>

\* header of the request: 'Sec-WebSocket-Version: 13'
VersionHeader ==
  <<83, 101, 99, 45, 87, 101, 98, 83, 111, 99, 107, 101, 116, 45, 86, 101,
  114, 115, 105, 111, 110, 58, 32, 49, 51>>

\* start of the subprotocol header: 'Sec-WebSocket-Protocol: '
ProtocolHeader ==
  <<83, 101, 99, 45, 87, 101, 98, 83, 111, 99, 107, 101, 116, 45, 80, 114,
  111, 116, 111, 99, 111, 108, 58, 32>>

\* the separator of the subprotocols: ', '
CommaSpace ==
  <<44, 32>>

\* a subprotocol: 'chat'
Chat ==
  <<99, 104, 97, 116>>

\* a Sec-WebSocket-Key: 'dGhlIHNhbXBsZSBub25jZQ=='
Key1 ==
  <<100, 71, 104, 108, 73, 72, 78, 104, 98, 88, 66, 115, 90, 83, 66, 117,
  98, 50, 53, 106, 90, 81, 61, 61>>

\* base64(SHA-1(Key1 + GUID)): 's3pPLMBiTxaQ9kYGzzhZRbK+xOo='
Accept1 ==
  <<115, 51, 112, 80, 76, 77, 66, 105, 84, 120, 97, 81, 57, 107, 89, 71,
  122, 122, 104, 90, 82, 98, 75, 43, 120, 79, 111, 61>>

\* a Sec-WebSocket-Key: 'AAECAwQFBgcICQoLDA0ODw=='
Key2 ==
  <<65, 65, 69, 67, 65, 119, 81, 70, 66, 103, 99, 73, 67, 81, 111, 76, 68,
  65, 48, 79, 68, 119, 61, 61>>

\* base64(SHA-1(Key2 + GUID)): 'Bz3qJYTGdOe8gUSpLosEdiLKDrk='
Accept2 ==
  <<66, 122, 51, 113, 74, 89, 84, 71, 100, 79, 101, 56, 103, 85, 83, 112,
  76, 111, 115, 69, 100, 105, 76, 75, 68, 114, 107, 61>>

\* a Sec-WebSocket-Key: 'EBESExQVFhcYGRobHB0eHw=='
Key3 ==
  <<69, 66, 69, 83, 69, 120, 81, 86, 70, 104, 99, 89, 71, 82, 111, 98, 72,
  66, 48, 101, 72, 119, 61, 61>>

\* base64(SHA-1(Key3 + GUID)): 'cW0HMpChSOllUrDZnf5AIF3ENuY='
Accept3 ==
  <<99, 87, 48, 72, 77, 112, 67, 104, 83, 79, 108, 108, 85, 114, 68, 90,
  110, 102, 53, 65, 73, 70, 51, 69, 78, 117, 89, 61>>

\* base64(SHA-1('undefined' + GUID)): 'gH2cR3x4MfGXKljgIwL3fMYv0sY='
AcceptOfUndefined ==
  <<103, 72, 50, 99, 82, 51, 120, 52, 77, 102, 71, 88, 75, 108, 106, 103,
  73, 119, 76, 51, 102, 77, 89, 118, 48, 115, 89, 61>>

\* status line of an accepting server: 'HTTP/1.1 101 Switching Protocols\r\n'
StatusLine101 ==
  <<72, 84, 84, 80, 47, 49, 46, 49, 32, 49, 48, 49, 32, 83, 119, 105, 116,
  99, 104, 105, 110, 103, 32, 80, 114, 111, 116, 111, 99, 111, 108, 115, 13,
  10>>

\* status line of a refusing server: 'HTTP/1.1 400 Bad Request\r\n'
StatusLine400 ==
  <<72, 84, 84, 80, 47, 49, 46, 49, 32, 52, 48, 48, 32, 66, 97, 100, 32, 82,
  101, 113, 117, 101, 115, 116, 13, 10>>

\* the header name as servers spell it: 'Sec-WebSocket-Accept'
AcceptHeaderName ==
  <<83, 101, 99, 45, 87, 101, 98, 83, 111, 99, 107, 101, 116, 45, 65, 99,
  99, 101, 112, 116>>

\* an accept value that belongs to no key: 'AAAAAAAAAAAAAAAAAAAAAAAAAAA='
WrongAccept ==
  <<65, 65, 65, 65, 65, 65, 65, 65, 65, 65, 65, 65, 65, 65, 65, 65, 65, 65,
  65, 65, 65, 65, 65, 65, 65, 65, 65, 61>>

\* text a server may add after the accept value: 'x'
Junk ==
  <<120>>

\* what reading a missing property or a missing array element yields
Undefined == <<-1>>

\* crypto.randomBytes(16).toString('base64') in the n-th connection
KeyText(n) == CASE n % 3 = 1 -> Key1 [] n % 3 = 2 -> Key2 [] OTHER -> Key3

\* _generateAcceptValue(key), on the keys of the model; this._key is
\* undefined until a connection is established
GenerateAcceptValue(k) ==
  CASE k = Key1 -> Accept1
    [] k = Key2 -> Accept2
    [] k = Key3 -> Accept3
    [] OTHER -> AcceptOfUndefined

\* ------------------------------------------------------------------------
\* JavaScript string and array operators used by the handshake
\* ------------------------------------------------------------------------

\* the least index at which pattern occurs in str, 0 if it does not occur
IndexOf(str, pattern) ==
  LET at == {i \in 1..(Len(str) - Len(pattern) + 1) :
               SubSeq(str, i, i + Len(pattern) - 1) = pattern}
  IN IF at = {} THEN 0 ELSE CHOOSE i \in at : \A j \in at : i <= j

\* str.includes(pattern)
Includes(str, pattern) == IndexOf(str, pattern) # 0

RECURSIVE Split(_, _)
\* str.split(separator)
Split(str, separator) ==
  LET i == IndexOf(str, separator) IN
  IF i = 0 THEN <<str>>
  ELSE <<SubSeq(str, 1, i - 1)>>
         \o Split(SubSeq(str, i + Len(separator), Len(str)), separator)

RECURSIVE Join(_, _)
\* array.join(separator)
Join(array, separator) ==
  IF array = <<>> THEN <<>>
  ELSE IF Len(array) = 1 THEN array[1]
  ELSE array[1] \o separator \o Join(Tail(array), separator)

\* str.toLowerCase()
ToLowerCase(str) ==
  [i \in 1..Len(str) |-> IF str[i] >= 65 /\ str[i] <= 90 THEN str[i] + 32 ELSE str[i]]

\* _isHandshakeResponse(response)
IsHandshakeResponse(response) == Includes(response, SwitchingProtocols)

\* _parseHeaders(response): the object `headers`, as a function from the
\* keys that were set to their values.  Of a line only the first two fields
\* of split(': ') are read; a later line overwrites an earlier one of the
\* same key.
ParseHeaders(response) ==
  LET lines == Split(response, CRLF)
      fields(n) == Split(lines[n], ColonSpace)
      name(n) == fields(n)[1]
      value(n) == IF Len(fields(n)) >= 2 THEN fields(n)[2] ELSE Undefined
      set == {n \in 1..Len(lines) :
                name(n) # <<>> /\ value(n) # Undefined /\ value(n) # <<>>}
      last(k) == CHOOSE n \in set :
                   /\ ToLowerCase(name(n)) = k
                   /\ \A m \in set : ToLowerCase(name(m)) = k => m <= n
  IN [k \in {ToLowerCase(name(n)) : n \in set} |-> value(last(k))]

\* headers[name]
Lookup(headers, name) ==
  IF name \in DOMAIN headers THEN headers[name] ELSE Undefined

\* the upgrade request the callback of connect() writes (lines 54-69)
UpgradeRequest(k, protocolList) ==
  LET headers ==
        <<RequestLine, HostHeader, UpgradeHeader, ConnectionHeader,
          KeyHeader \o k, VersionHeader>>
      withProtocol ==
        IF Len(protocolList) > 0
          THEN Append(headers, ProtocolHeader \o Join(protocolList, CommaSpace))
          ELSE headers
  IN Join(Append(withProtocol, CRLF), CRLF)

\* ------------------------------------------------------------------------
\* JSON.parse, for texts made of objects, strings without escapes, the
\* literals true, false and null, and unsigned integers
\* ------------------------------------------------------------------------

\* the characters JSON.parse skips between tokens
Whitespace == {32, 9, 10, 13}

\* the first position from i on that holds no whitespace, or Len(text) + 1
SkipWhitespace(text, i) ==
  IF \E j \in i..Len(text) : text[j] \notin Whitespace
    THEN CHOOSE j \in i..Len(text) :
           /\ text[j] \notin Whitespace
           /\ \A k \in i..(j - 1) : text[k] \in Whitespace
    ELSE Len(text) + 1

\* a parsed value: its type, the characters of a string, literal or number,
\* the members of an object
JsonValue(type, text, members) ==
  [type |-> type, text |-> text, members |-> members]

\* the parse of a value that ends before position next
Parsed(value, next) ==
  [ok |-> TRUE, value |-> value, next |-> next, expected |-> "", atEnd |-> FALSE]

\* the SyntaxError JSON.parse throws: what the parser expected, and whether it
\* met the end of the text instead
SyntaxError(expected, atEnd) ==
  [ok |-> FALSE, value |-> JsonValue("undefined", <<>>, <<>>), next |-> 0,
   expected |-> expected, atEnd |-> atEnd]

\* the string that starts with the quotation mark at position i
ParseString(text, i) ==
  IF \E j \in (i + 1)..Len(text) : text[j] = 34
    THEN LET j == CHOOSE j \in (i + 1)..Len(text) :
                    text[j] = 34 /\ \A k \in (i + 1)..(j - 1) : text[k] # 34
         IN Parsed(JsonValue("string", SubSeq(text, i + 1, j - 1), <<>>), j + 1)
    ELSE SyntaxError("string end", TRUE)

\* the literal word (true, false, null) expected at position i
ParseLiteral(text, i, word) ==
  LET last  == IF i + Len(word) - 1 < Len(text) THEN i + Len(word) - 1 ELSE Len(text)
      found == SubSeq(text, i, last)
  IN IF found = word THEN Parsed(JsonValue("literal", word, <<>>), i + Len(word))
     ELSE SyntaxError("value", SubSeq(word, 1, Len(found)) = found)

\* the unsigned integer that starts at position i
ParseNumber(text, i) ==
  LET j == IF \E k \in i..Len(text) : text[k] \notin 48..57
             THEN CHOOSE k \in i..Len(text) :
                    text[k] \notin 48..57 /\ \A m \in i..(k - 1) : text[m] \in 48..57
             ELSE Len(text) + 1
  IN Parsed(JsonValue("number", SubSeq(text, i, j - 1), <<>>), j)

\* a literal: 'true'
TrueLiteral ==
  <<116, 114, 117, 101>>

\* a literal: 'false'
FalseLiteral ==
  <<102, 97, 108, 115, 101>>

\* a literal: 'null'
NullLiteral ==
  <<110, 117, 108, 108>>

RECURSIVE ParseValue(_, _)
RECURSIVE ParseMembers(_, _, _)

\* the value that starts at or after position start
ParseValue(text, start) ==
  LET i == SkipWhitespace(text, start) IN
  IF i > Len(text) THEN SyntaxError("value", TRUE)
  ELSE CASE text[i] = 34 -> ParseString(text, i)
         [] text[i] = 123 ->
              LET j == SkipWhitespace(text, i + 1) IN
              IF j > Len(text) THEN SyntaxError("property name or }", TRUE)
              ELSE IF text[j] = 125
                THEN Parsed(JsonValue("object", <<>>, <<>>), j + 1)
                ELSE ParseMembers(text, j, <<>>)
         [] text[i] = 116 -> ParseLiteral(text, i, TrueLiteral)
         [] text[i] = 102 -> ParseLiteral(text, i, FalseLiteral)
         [] text[i] = 110 -> ParseLiteral(text, i, NullLiteral)
         [] text[i] \in 48..57 -> ParseNumber(text, i)
         [] OTHER -> SyntaxError("value", FALSE)

\* the members of an object from position i on, where a property name has to
\* start; members are the ones parsed before
ParseMembers(text, i, members) ==
  LET wanted == IF members = <<>> THEN "property name or }"
                ELSE "quoted property name" IN
  IF i > Len(text) THEN SyntaxError(wanted, TRUE)
  ELSE IF text[i] # 34 THEN SyntaxError(wanted, FALSE)
  ELSE
    LET name == ParseString(text, i) IN
    IF ~name.ok THEN name
    ELSE
      LET c == SkipWhitespace(text, name.next) IN
      IF c > Len(text) THEN SyntaxError("colon", TRUE)
      ELSE IF text[c] # 58 THEN SyntaxError("colon", FALSE)
      ELSE
        LET v == ParseValue(text, c + 1) IN
        IF ~v.ok THEN v
        ELSE
          LET d   == SkipWhitespace(text, v.next)
              all == Append(members, [name |-> name.value.text, value |-> v.value])
          IN IF d > Len(text) THEN SyntaxError("comma or }", TRUE)
             ELSE IF text[d] = 125 THEN Parsed(JsonValue("object", <<>>, all), d + 1)
             ELSE IF text[d] = 44
               THEN ParseMembers(text, SkipWhitespace(text, d + 1), all)
               ELSE SyntaxError("comma or }", FALSE)

\* JSON.parse(text)
JsonParse(text) ==
  LET v == ParseValue(text, 1) IN
  IF ~v.ok THEN v
  ELSE IF SkipWhitespace(text, v.next) <= Len(text)
    THEN SyntaxError("end of text", FALSE)
    ELSE v

\* the property names and the type values of the envelopes, as characters:
\* 'type', 'payload', 'responseRequired', 'message', 'notification'
Text ==
  [type |-> <<116, 121, 112, 101>>,
   payload |-> <<112, 97, 121, 108, 111, 97, 100>>,
   responseRequired |-> <<114, 101, 115, 112, 111, 110, 115, 101, 82, 101,
                          113, 117, 105, 114, 101, 100>>,
   message |-> <<109, 101, 115, 115, 97, 103, 101>>,
   notification |-> <<110, 111, 116, 105, 102, 105, 99, 97, 116, 105, 111,
                      110>>]

\* value.name for a parsed value: the member of that name that comes last in
\* the text, or undefined
Member(value, name) ==
  LET named == {i \in 1..Len(value.members) : value.members[i].name = name}
  IN IF value.type = "object" /\ named # {}
       THEN value.members[CHOOSE i \in named : \A j \in named : j <= i].value
       ELSE JsonValue("undefined", <<>>, <<>>)

\* the message the parser's decode looks for
UnexpectedEnd == "Unexpected end of JSON input"

\* The message of the SyntaxError.  ECMAScript leaves it to the engine.  V8
\* up to version 10 (Node up to 18) says 'Unexpected end of JSON input'
\* wherever the text ends too early and 'Unexpected token' otherwise ("terse");
\* V8 from version 11 (Node from 20) names what it expected ("detailed") and
\* keeps 'Unexpected end of JSON input' for a text that ends where a value
\* has to start.
ErrorMessage(engine, error) ==
  IF engine = "terse"
    THEN IF error.atEnd THEN UnexpectedEnd ELSE "Unexpected token"
    ELSE CASE error.expected = "value" ->
                IF error.atEnd THEN UnexpectedEnd ELSE "Unexpected token"
           [] error.expected = "string end" -> "Unterminated string in JSON"
           [] error.expected = "colon" -> "Expected ':' after property name in JSON"
           [] error.expected = "comma or }" ->
                "Expected ',' or '}' after property value in JSON"
           [] error.expected = "property name or }" ->
                "Expected property name or '}' in JSON"
           [] error.expected = "quoted property name" ->
                "Expected double-quoted property name in JSON"
           [] OTHER -> "Unexpected non-whitespace character after JSON"

\* ------------------------------------------------------------------------
\* State
\* ------------------------------------------------------------------------

VARIABLES
  protocols,          \* this.protocols
  connected,          \* this.connected
  key,                \* this._key
  heartbeatInterval,  \* this.heartbeatInterval: a timer, or 0 for null
  socks,              \* the sockets created so far; this.socket is the last
  timers,             \* the interval timers that are running
  timerSeq,           \* how many timers setInterval has created
  written,            \* the calls of socket.write, in order
  events,             \* the events emitted to the application, in order
  dispatched,         \* the frames _handleData has decoded, in order
  connectsLeft,       \* how often the application will yet call connect()
  ticks,              \* how often a heartbeat timer has fired
  disconnects,        \* how often the application has called disconnect()
  framesPerConnection,\* how many frames a server sends on a connection, at most
  peer,               \* what the server sends: "frames" or "envelopes"
  calls,              \* the calls of the application that send, in order
  codecMessage,       \* the string handed to _encodeFrame
  codecOpcode,        \* the opcode handed to _encodeFrame
  codecFrame,         \* the buffer _encodeFrame returned
  codecDecoded,       \* what _decodeFrame returned for codecFrame
  codecPc,            \* "idle", "input", "encoded" or "decoded"
  maskPayload,        \* the payload bytes a peer sends in a masked frame
  maskKey,            \* the masking key of the peer
  parserFormat,       \* parser.format: "json" or "binary"
  parserBuffer,       \* parser.buffer
  parserReturned,     \* what the last call of parser.decode returned
  parserErrors,       \* how often parser.decode has reported a decode failure
  parserInput,        \* the chunks yet to be handed to parser.decode
  parserFed,          \* the bytes handed to parser.decode so far
  parserWritten,      \* the calls of socket.write of parser.handleMessage
  parserHandled,      \* what the calls of parser.handleMessage returned
  jsonErrors          \* the error messages of the engine: "terse", "detailed"

clientVars == <<protocols, connected, key, heartbeatInterval, socks, timers,
                timerSeq, written, events, dispatched, connectsLeft, ticks,
                disconnects>>

codecVars == <<codecMessage, codecOpcode, codecFrame, codecDecoded, codecPc,
               maskPayload, maskKey>>

\* what the server does, fixed for a behaviour, and what the application
\* has called
envVars == <<framesPerConnection, peer, calls>>

parserVars == <<parserFormat, parserBuffer, parserReturned, parserErrors,
                parserInput, parserFed, parserWritten, parserHandled,
                jsonErrors>>

vars == <<clientVars, envVars, codecVars, parserVars>>

\* ------------------------------------------------------------------------
\* The transport and the server
\* ------------------------------------------------------------------------

\* how many frames a server sends after its handshake response
MaxFrames == 2

\* how often a heartbeat timer fires
MaxTicks == 1

\* how often the application calls disconnect()
MaxDisconnects == 1

\* this.socket: connect() replaces it by the socket it creates
Socket == Len(socks)

\* new net.Socket() of the constructor: never connected, without listeners
IdleSocket ==
  [st |-> "idle", ended |-> FALSE, peerEnded |-> FALSE,
   inbox |-> <<>>, hs |-> <<>>, rx |-> <<>>, opens |-> 0]

\* net.createConnection(...).  st is "connecting", "open", "destroyed" (the
\* client called socket.destroy()) or "failed" (the transport reported an
\* error); ended: socket.end() was called; peerEnded: the 'end' event was
\* emitted;
\* inbox: the pieces of the server's byte stream yet to be delivered; hs and
\* rx: the bytes _handleData was handed on this socket while the client was
\* not connected, and while it was connected; opens: how many `open` events
\* the data of this socket has caused
NewSocket ==
  [st |-> "connecting", ended |-> FALSE, peerEnded |-> FALSE,
   inbox |-> <<>>, hs |-> <<>>, rx |-> <<>>, opens |-> 0]

\* the record of one call socket.write(data) on socket s; live tells whether
\* the socket still takes data (not destroyed, end() not called)
WriteCall(s, data) ==
  [sock |-> s, data |-> data,
   live |-> socks[s].st \in {"connecting", "open"} /\ ~socks[s].ended]

\* emit(name, arg)
Event(name, arg) == [name |-> name, arg |-> arg]

RECURSIVE Flatten(_)
\* the bytes of a sequence of pieces
Flatten(pieces) ==
  IF pieces = <<>> THEN <<>> ELSE Head(pieces) \o Flatten(Tail(pieces))

\* a buffer cut into pieces of one byte
Bytewise(buffer) == [i \in 1..Len(buffer) |-> <<buffer[i]>>]

\* What a server answers to the upgrade request that carried key k, in the
\* pieces between which the transport may cut it: the right answer, a wrong
\* accept value, no accept header, a refusal, and the right accept value
\* followed by ': x'.
Responses(k) ==
  LET accept(v) == AcceptHeaderName \o ColonSpace \o v
      good      == GenerateAcceptValue(k)
  IN { <<StatusLine101, accept(good), CRLF \o CRLF>>,
       <<StatusLine101, accept(WrongAccept), CRLF \o CRLF>>,
       <<StatusLine101, CRLF>>,
       <<StatusLine400, accept(good), CRLF \o CRLF>>,
       <<StatusLine101, accept(good \o ColonSpace \o Junk), CRLF \o CRLF>> }

\* the envelope the parser's sendMessage builds for the message 'A':
\* '{"type":"message","payload":"A"}'
MessageEnvelope ==
  <<123, 34, 116, 121, 112, 101, 34, 58, 34, 109, 101, 115, 115, 97, 103,
  101, 34, 44, 34, 112, 97, 121, 108, 111, 97, 100, 34, 58, 34, 65, 34,
  125>>

\* the envelope the parser's sendNotification builds for the notification 'A':
\* '{"type":"notification","payload":"A","responseRequired":true}'
NotificationEnvelope ==
  <<123, 34, 116, 121, 112, 101, 34, 58, 34, 110, 111, 116, 105, 102, 105,
  99, 97, 116, 105, 111, 110, 34, 44, 34, 112, 97, 121, 108, 111, 97, 100,
  34, 58, 34, 65, 34, 44, 34, 114, 101, 115, 112, 111, 110, 115, 101, 82,
  101, 113, 117, 105, 114, 101, 100, 34, 58, 116, 114, 117, 101, 125>>

\* the envelope the parser's handleNotification answers with:
\* '{"type":"ack","message":"Notification received successfully"}'
AckEnvelope ==
  <<123, 34, 116, 121, 112, 101, 34, 58, 34, 97, 99, 107, 34, 44, 34, 109,
  101, 115, 115, 97, 103, 101, 34, 58, 34, 78, 111, 116, 105, 102, 105, 99,
  97, 116, 105, 111, 110, 32, 114, 101, 99, 101, 105, 118, 101, 100, 32,
  115, 117, 99, 99, 101, 115, 115, 102, 117, 108, 108, 121, 34, 125>>

\* a Ping frame of a server whose payload is the one byte 0xE9: application
\* data that is no UTF-8 text
BinaryPing == <<137, 1, 233>>

\* the frames of a server that runs CreamSocketParser: what its sendMessage,
\* its sendNotification and its handleNotification write, and the envelope
\* of a message in a binary frame
EnvelopeFrames ==
  { EncodeFrame(MessageEnvelope, 1), EncodeFrame(NotificationEnvelope, 2),
    EncodeFrame(AckEnvelope, 1), EncodeFrame(MessageEnvelope, 2) }

\* the frames a server sends: text 'A', binary U+00E9, close, ping 'A', a
\* notification envelope, a ping with binary payload; or envelopes only
ServerFrames ==
  IF peer = "envelopes" THEN EnvelopeFrames
  ELSE { EncodeFrame(<<65>>, 1), EncodeFrame(<<233>>, 2),
         EncodeFrame(<<>>, 8), EncodeFrame(<<65>>, 9),
         EncodeFrame(NotificationEnvelope, 2), BinaryPing }

RECURSIVE FrameSeqs(_)
\* the concatenations of at most n server frames
FrameSeqs(n) ==
  IF n = 0 THEN {<<>>}
  ELSE LET shorter == FrameSeqs(n - 1)
       IN shorter \cup {f \o g : f \in ServerFrames, g \in shorter}

\* frames of at most this many bytes are cut after any byte, longer ones
\* arrive whole
MaxCutLen == 5

RECURSIVE Pieces(_)
\* the pieces between which the transport may cut a sequence of frames
Pieces(frames) ==
  IF frames = <<>> THEN <<>>
  ELSE LET n == DecodeFrame(frames).consumed
           first == SubSeq(frames, 1, n)
       IN (IF n <= MaxCutLen THEN Bytewise(first) ELSE <<first>>)
            \o Pieces(SubSeq(frames, n + 1, Len(frames)))

\* the streams a server may deliver on a connection: a response, then at
\* most n frames
ServerStreams(k, n) ==
  {r \o Pieces(f) : r \in Responses(k), f \in FrameSeqs(n)}

\* ------------------------------------------------------------------------
\* The client
\* ------------------------------------------------------------------------

\* state after the constructor (lines 28-38)
Constructed ==
  /\ protocols \in {<<>>, <<Chat>>}
  /\ connected = FALSE
  /\ key = Undefined
  /\ heartbeatInterval = 0
  /\ socks = <<IdleSocket>>
  /\ timers = {}
  /\ timerSeq = 0
  /\ written = <<>>
  /\ events = <<>>
  /\ dispatched = <<>>
  /\ ticks = 0
  /\ disconnects = 0
  /\ calls = <<>>

\* a client that is connected once, to a server that sends up to MaxFrames
\* frames
ClientInit ==
  /\ Constructed
  /\ connectsLeft = 1
  /\ framesPerConnection = MaxFrames
  /\ peer = "frames"

\* connect(): creates the socket and registers the listeners
Connect ==
  /\ connectsLeft > 0
  /\ connectsLeft' = connectsLeft - 1
  /\ socks' = Append(socks, NewSocket)
  /\ UNCHANGED <<protocols, connected, key, heartbeatInterval, timers, timerSeq,
                 written, events, dispatched, ticks, disconnects>>

\* the callback of net.createConnection (lines 48-70), for the socket s of
\* the (s-1)-th call of connect(); the server then decides what it sends
TcpEstablished(s) ==
  /\ socks[s].st = "connecting"
  /\ key' = KeyText(s - 1)
  /\ written' = Append(written, WriteCall(Socket, UpgradeRequest(key', protocols)))
  /\ \E stream \in ServerStreams(key', framesPerConnection) :
       socks' = [socks EXCEPT ![s].st = "open", ![s].inbox = stream]
  /\ UNCHANGED <<protocols, connected, heartbeatInterval, timers, timerSeq,
                 events, dispatched, connectsLeft, ticks, disconnects>>

\* _sendCloseFrame() (lines 337-341): the write; socket.end() is the
\* caller's update of socks
CloseFrameWritten == Append(written, WriteCall(Socket, EncodeFrame(<<>>, 8)))

\* disconnect() called by the application; this.socket is never null
Disconnect ==
  /\ disconnects < MaxDisconnects
  /\ disconnects' = disconnects + 1
  /\ written' = CloseFrameWritten
  /\ socks' = [socks EXCEPT ![Socket].ended = TRUE]
  /\ UNCHANGED <<protocols, connected, key, heartbeatInterval, timers, timerSeq,
                 events, dispatched, connectsLeft, ticks>>

\* a timer whose callback writes nothing
HeartbeatTickSilent ==
  /\ timers # {}
  /\ ticks < MaxTicks
  /\ ticks' = ticks + 1
  /\ UNCHANGED <<protocols, connected, key, heartbeatInterval, socks, timers,
                 timerSeq, written, events, dispatched, connectsLeft,
                 disconnects>>

\* the callback of setInterval in startHeartbeat (lines 348-350): ping()
HeartbeatTick ==
  /\ timers # {}
  /\ ticks < MaxTicks
  /\ ticks' = ticks + 1
  /\ written' = Append(written, WriteCall(Socket, EncodeFrame(<<>>, 9)))
  /\ UNCHANGED <<protocols, connected, key, heartbeatInterval, socks, timers,
                 timerSeq, events, dispatched, connectsLeft, disconnects>>

\* the 'end' listener (lines 74-79); the server may end before it has sent
\* everything, and Node then ends the socket's own side as well
PeerEnd(s) ==
  /\ socks[s].st = "open"
  /\ ~socks[s].peerEnded
  /\ socks' = [socks EXCEPT ![s].peerEnded = TRUE, ![s].ended = TRUE,
                            ![s].inbox = <<>>]
  /\ connected' = FALSE
  /\ events' = Append(events, Event("close", <<>>))
  /\ heartbeatInterval' = 0
  /\ timers' = timers \ {heartbeatInterval}
  /\ UNCHANGED <<protocols, key, timerSeq, written, dispatched, connectsLeft,
                 ticks, disconnects>>

\* the 'error' listener (lines 80-83); Node closes a socket that failed
SocketError(s) ==
  /\ socks[s].st \in {"connecting", "open"}
  /\ socks' = [socks EXCEPT ![s].st = "failed", ![s].inbox = <<>>]
  /\ events' = Append(events, Event("error", <<>>))
  /\ UNCHANGED <<protocols, connected, key, heartbeatInterval, timers, timerSeq,
                 written, dispatched, connectsLeft, ticks, disconnects>>

\* _completeHandshake(response) (lines 186-200): whether it accepts
HandshakeAccepted(response) ==
  LET headers == ParseHeaders(response)
      acceptKey == Lookup(headers, SecWebSocketAccept)
      expectedAccept == GenerateAcceptValue(key)
  IN acceptKey = expectedAccept

\* _handleData(data) while this.connected is false (lines 138-147), with
\* _completeHandshake and startHeartbeat; `rest` is socks after the chunk
\* was taken from the inbox of the receiving socket
HandleHandshake(s, data, rest) ==
  LET response == BufferToString(data) IN
  IF IsHandshakeResponse(response) /\ HandshakeAccepted(response)
    THEN /\ connected' = TRUE
         /\ events' = Append(events, Event("open", <<>>))
         /\ timerSeq' = timerSeq + 1
         /\ heartbeatInterval' = timerSeq + 1
         /\ timers' = timers \cup {timerSeq + 1}
         /\ socks' = [rest EXCEPT ![s].opens = @ + 1]
         /\ UNCHANGED <<written, dispatched>>
    ELSE /\ socks' = [rest EXCEPT ![Socket].st = "destroyed", ![Socket].inbox = <<>>]
         /\ UNCHANGED <<connected, events, timerSeq, heartbeatInterval, timers,
                        written, dispatched>>

\* _handleData(data) while this.connected is true (lines 149-171), on the
\* socket s
HandleFrame(s, data, rest) ==
  LET frame == DecodeFrame(data) IN
  IF frame = Null
    THEN /\ socks' = rest
         /\ UNCHANGED <<events, written, dispatched>>
    ELSE
      /\ dispatched' = Append(dispatched,
                              [sock |-> s, opcode |-> frame.opcode,
                               payload |-> frame.payload,
                               raw |-> SubSeq(data, 1, frame.consumed)])
      /\ CASE frame.opcode = 1 ->
                /\ events' = Append(events, Event("message", frame.payload))
                /\ socks' = rest
                /\ UNCHANGED written
           [] frame.opcode = 2 ->
                /\ events' = Append(events, Event("notification", frame.payload))
                /\ socks' = rest
                /\ UNCHANGED written
           [] frame.opcode = 8 ->
                /\ written' = CloseFrameWritten
                /\ socks' = [rest EXCEPT ![Socket].ended = TRUE]
                /\ UNCHANGED events
           [] frame.opcode = 9 ->
                /\ written' = Append(written,
                                     WriteCall(Socket, EncodeFrame(frame.payload, 10)))
                /\ socks' = rest
                /\ UNCHANGED events
           [] OTHER ->
                /\ socks' = rest
                /\ UNCHANGED <<events, written>>

\* the 'data' listener (line 73): the transport delivers the next n pieces
\* of the server's stream as one chunk
Data(s) ==
  /\ socks[s].st = "open"
  /\ ~socks[s].peerEnded
  /\ \E n \in 1..Len(socks[s].inbox) :
       LET data == Flatten(SubSeq(socks[s].inbox, 1, n))
           left == SubSeq(socks[s].inbox, n + 1, Len(socks[s].inbox))
       IN IF ~connected
            THEN HandleHandshake(s, data, [socks EXCEPT ![s].inbox = left,
                                                     ![s].hs = @ \o data])
            ELSE /\ HandleFrame(s, data, [socks EXCEPT ![s].inbox = left,
                                                       ![s].rx = @ \o data])
                 /\ UNCHANGED <<connected, heartbeatInterval, timers, timerSeq>>
  /\ UNCHANGED <<protocols, key, connectsLeft, ticks, disconnects>>

CodecIdle ==
  /\ codecMessage = <<>>
  /\ codecOpcode = 1
  /\ codecFrame = <<>>
  /\ codecDecoded = Null
  /\ codecPc = "idle"
  /\ maskPayload = <<>>
  /\ maskKey = <<>>

\* new CreamSocketParser(format) of the constructor (line 37), with the
\* default format; the client never calls its decode
ParserIdle ==
  /\ parserFormat = "json"
  /\ parserBuffer = <<>>
  /\ parserReturned = [kind |-> "null", bytes |-> <<>>,
                       json |-> JsonValue("undefined", <<>>, <<>>)]
  /\ parserErrors = 0
  /\ parserInput = <<>>
  /\ parserFed = <<>>
  /\ parserWritten = <<>>
  /\ parserHandled = <<>>
  /\ jsonErrors = "terse"

Init == ClientInit /\ CodecIdle /\ ParserIdle

\* the events of the transport, on any socket connect() has created
Established == \E s \in 2..Len(socks) : TcpEstablished(s) /\ UNCHANGED <<envVars, codecVars, parserVars>>
OnData      == \E s \in 2..Len(socks) : Data(s) /\ UNCHANGED <<envVars, codecVars, parserVars>>
OnEnd       == \E s \in 2..Len(socks) : PeerEnd(s) /\ UNCHANGED <<envVars, codecVars, parserVars>>
OnError     == \E s \in 2..Len(socks) : SocketError(s) /\ UNCHANGED <<envVars, codecVars, parserVars>>

\* the calls of the application and the timer
CallConnect    == Connect /\ UNCHANGED <<envVars, codecVars, parserVars>>
CallDisconnect == Disconnect /\ UNCHANGED <<envVars, codecVars, parserVars>>
TimerFires     == HeartbeatTick /\ UNCHANGED <<envVars, codecVars, parserVars>>

Next ==
  \/ CallConnect
  \/ Established
  \/ OnData
  \/ OnEnd
  \/ OnError
  \/ CallDisconnect
  \/ TimerFires

Spec == Init /\ [][Next]_vars

\* how often the application of the second specification calls connect()
MaxConnects == 2

\* a client whose application calls connect() again, to servers that send
\* their handshake response and no frames
ReconnectInit ==
  /\ Constructed
  /\ protocols = <<>>
  /\ connectsLeft = MaxConnects
  /\ framesPerConnection = 0
  /\ peer = "frames"
  /\ CodecIdle
  /\ ParserIdle

SpecReconnect == ReconnectInit /\ [][Next]_vars

\* how many frames a server of the third specification sends
LiveFrames == 0

\* a client that is connected once, to a server that sends at most LiveFrames
\* frames
LiveInit ==
  /\ Constructed
  /\ connectsLeft = 1
  /\ framesPerConnection = LiveFrames
  /\ peer = "frames"
  /\ CodecIdle
  /\ ParserIdle

\* setInterval: a timer that is running fires again and again, so its
\* callback is not postponed for ever
SpecLive == LiveInit /\ [][Next]_vars /\ WF_vars(TimerFires)

\* a client that is connected once, to a server that runs CreamSocketParser
\* and sends up to MaxFrames envelopes
EnvelopeInit ==
  /\ Constructed
  /\ protocols = <<>>
  /\ connectsLeft = 1
  /\ framesPerConnection = MaxFrames
  /\ peer = "envelopes"
  /\ CodecIdle
  /\ ParserIdle

SpecEnvelope == EnvelopeInit /\ [][Next]_vars

\* ------------------------------------------------------------------------
\* Specification of the client with an application that sends: it calls
\* sendMessage, sendNotification, ping, pong, startHeartbeat and stopHeartbeat
\* ------------------------------------------------------------------------

\* how often the application calls one of these methods
MaxCalls == 2

\* what the application sends: the string 'A'
AppPayloads == {<<65>>}

\* how many frames a server of this specification sends
AppFrames == 0

\* parser.encode(data, opcode) for a string, which either format encodes as
\* UTF-8 (TextEncoder for "json", Buffer.from for "binary")
ParserEncode(data, opcode) ==
  LET payload == BufferFrom(data)
      payloadLength == Len(payload)
      frame == <<BitOr(128, opcode)>>
      len ==
        IF payloadLength < 126 THEN <<payloadLength>>
        ELSE IF payloadLength < 65536
          THEN <<126, BitAnd(ShiftRight(payloadLength, 8), 255),
                      BitAnd(payloadLength, 255)>>
        ELSE <<127>> \o
             [k \in 1..8 |-> BitAnd(ShiftRight(payloadLength, (8 - k) * 8), 255)]
  IN frame \o len \o payload

\* the record of a call of the application
Call(op, arg) == [op |-> op, arg |-> arg, socket |-> Socket]

\* sendMessage(message) (lines 102-105)
SendMessage(message) ==
  /\ Len(calls) < MaxCalls
  /\ calls' = Append(calls, Call("sendMessage", message))
  /\ written' = Append(written, WriteCall(Socket, ParserEncode(message, 1)))
  /\ UNCHANGED <<protocols, connected, key, heartbeatInterval, socks, timers,
                 timerSeq, events, dispatched, connectsLeft, ticks, disconnects>>
  /\ UNCHANGED <<framesPerConnection, peer, codecVars, parserVars>>

\* sendNotification(notification) (lines 111-114)
SendNotification(notification) ==
  /\ Len(calls) < MaxCalls
  /\ calls' = Append(calls, Call("sendNotification", notification))
  /\ written' = Append(written, WriteCall(Socket, ParserEncode(notification, 1)))
  /\ UNCHANGED <<protocols, connected, key, heartbeatInterval, socks, timers,
                 timerSeq, events, dispatched, connectsLeft, ticks, disconnects>>
  /\ UNCHANGED <<framesPerConnection, peer, codecVars, parserVars>>

\* ping(payload) (lines 119-122)
Ping(payload) ==
  /\ Len(calls) < MaxCalls
  /\ calls' = Append(calls, Call("ping", payload))
  /\ written' = Append(written, WriteCall(Socket, EncodeFrame(payload, 9)))
  /\ UNCHANGED <<protocols, connected, key, heartbeatInterval, socks, timers,
                 timerSeq, events, dispatched, connectsLeft, ticks, disconnects>>
  /\ UNCHANGED <<framesPerConnection, peer, codecVars, parserVars>>

\* pong(payload) (lines 128-131)
Pong(payload) ==
  /\ Len(calls) < MaxCalls
  /\ calls' = Append(calls, Call("pong", payload))
  /\ written' = Append(written, WriteCall(Socket, EncodeFrame(payload, 10)))
  /\ UNCHANGED <<protocols, connected, key, heartbeatInterval, socks, timers,
                 timerSeq, events, dispatched, connectsLeft, ticks, disconnects>>
  /\ UNCHANGED <<framesPerConnection, peer, codecVars, parserVars>>

\* startHeartbeat() (lines 347-351), called by the application
StartHeartbeat ==
  /\ Len(calls) < MaxCalls
  /\ calls' = Append(calls, Call("startHeartbeat", <<>>))
  /\ timerSeq' = timerSeq + 1
  /\ heartbeatInterval' = timerSeq + 1
  /\ timers' = timers \cup {timerSeq + 1}
  /\ UNCHANGED <<protocols, connected, key, socks, written, events, dispatched,
                 connectsLeft, ticks, disconnects>>
  /\ UNCHANGED <<framesPerConnection, peer, codecVars, parserVars>>

\* stopHeartbeat() (lines 356-361), called by the application
StopHeartbeat ==
  /\ Len(calls) < MaxCalls
  /\ calls' = Append(calls, Call("stopHeartbeat", <<>>))
  /\ IF heartbeatInterval # 0
       THEN /\ timers' = timers \ {heartbeatInterval}
            /\ heartbeatInterval' = 0
       ELSE UNCHANGED <<timers, heartbeatInterval>>
  /\ UNCHANGED <<protocols, connected, key, socks, timerSeq, written, events,
                 dispatched, connectsLeft, ticks, disconnects>>
  /\ UNCHANGED <<framesPerConnection, peer, codecVars, parserVars>>

\* a client that is connected once, to a server that sends at most AppFrames
\* frames
AppInit ==
  /\ Constructed
  /\ protocols = <<>>
  /\ connectsLeft = 1
  /\ framesPerConnection = AppFrames
  /\ peer = "frames"
  /\ CodecIdle
  /\ ParserIdle

AppNext ==
  \/ Next
  \/ \E message \in AppPayloads : SendMessage(message)
  \/ \E notification \in AppPayloads : SendNotification(notification)
  \/ \E payload \in {<<>>} \cup AppPayloads : Ping(payload)
  \/ \E payload \in {<<>>} \cup AppPayloads : Pong(payload)
  \/ StartHeartbeat
  \/ StopHeartbeat

SpecApp == AppInit /\ [][AppNext]_vars

\* ------------------------------------------------------------------------
\* Specification of the codec alone: encode a message, decode the result
\* ------------------------------------------------------------------------

\* characters of the messages: 'A' and U+00E9 (two bytes in UTF-8)
Alphabet == {65, 233}

\* the opcodes the client and its parser pass to the encoder
Opcodes == {1, 2, 8, 9, 10}

\* payload lengths at and around the boundaries of the three length forms
BoundaryLengths == {125, 126, 127, 65535, 65536, 70000}

RECURSIVE StringsUpTo(_)
StringsUpTo(n) ==
  IF n = 0 THEN {<<>>}
  ELSE LET shorter == StringsUpTo(n - 1)
       IN shorter \cup {Append(s, c) : s \in {t \in shorter : Len(t) = n - 1}, c \in Alphabet}

RECURSIVE Repeat(_, _)
\* the string of n characters c
Repeat(c, n) ==
  IF n = 0 THEN <<>>
  ELSE IF n % 2 = 1 THEN <<c>> \o Repeat(c, n - 1)
  ELSE LET half == Repeat(c, n \div 2) IN half \o half

CodecMessages ==
  StringsUpTo(MaxSmallLen) \cup {Repeat(65, n) : n \in BoundaryLengths}

CodecInit ==
  /\ ClientInit
  /\ ParserIdle
  /\ protocols = <<>>
  /\ codecMessage \in CodecMessages
  /\ codecOpcode \in Opcodes
  /\ codecFrame = <<>>
  /\ codecDecoded = Null
  /\ codecPc = "input"
  /\ maskPayload = <<>>
  /\ maskKey = <<>>

CodecEncode ==
  /\ codecPc = "input"
  /\ codecFrame' = EncodeFrame(codecMessage, codecOpcode)
  /\ codecPc' = "encoded"
  /\ UNCHANGED <<codecMessage, codecOpcode, codecDecoded, maskPayload, maskKey>>
  /\ UNCHANGED <<clientVars, envVars, parserVars>>

CodecDecode ==
  /\ codecPc = "encoded"
  /\ codecDecoded' = DecodeFrame(codecFrame)
  /\ codecPc' = "decoded"
  /\ UNCHANGED <<codecMessage, codecOpcode, codecFrame, maskPayload, maskKey>>
  /\ UNCHANGED <<clientVars, envVars, parserVars>>

CodecNext == CodecEncode \/ CodecDecode

SpecCodec == CodecInit /\ [][CodecNext]_vars

\* ------------------------------------------------------------------------
\* Specification of the decoder for masked frames: a peer masks a payload,
\* the client decodes the frame
\* ------------------------------------------------------------------------

\* bytes that are no UTF-8 text
BinaryGarbage == <<255, 0>>

\* what a peer does to mask a payload: byte i (from 0) XOR key[i mod 4]
Mask(payload, k) ==
  [i \in 1..Len(payload) |-> BitXor(payload[i], k[((i - 1) % 4) + 1])]

\* the frame of a peer that masks: FIN and opcode, the mask bit with the
\* length (7-bit or 16-bit form), the key, the masked payload
MaskedFrame(payload, k, opcode) ==
  LET len == IF Len(payload) < 126 THEN <<128 + Len(payload)>>
             ELSE <<128 + 126, Len(payload) \div 256, Len(payload) % 256>>
  IN <<128 + opcode>> \o len \o k \o Mask(payload, k)

\* the payloads a peer masks: the bytes of short texts, a text longer than
\* the key and longer than the 7-bit length form, and bytes that are no
\* UTF-8 text
MaskPayloads ==
  {BufferFrom(m) : m \in StringsUpTo(MaxSmallLen)}
    \cup {Repeat(65, 5), Repeat(65, 126), <<233>>, BinaryGarbage}

\* the masking keys of a peer
MaskKeys == {<<0, 0, 0, 0>>, <<1, 2, 3, 4>>, <<255, 255, 255, 255>>,
             <<18, 52, 86, 120>>}

MaskInit ==
  /\ ClientInit
  /\ protocols = <<>>
  /\ ParserIdle
  /\ codecMessage = <<>>
  /\ codecOpcode \in {1, 2}
  /\ codecFrame = <<>>
  /\ codecDecoded = Null
  /\ codecPc = "input"
  /\ maskPayload \in MaskPayloads
  /\ maskKey \in MaskKeys

\* the peer builds its frame
PeerEncode ==
  /\ codecPc = "input"
  /\ codecFrame' = MaskedFrame(maskPayload, maskKey, codecOpcode)
  /\ codecPc' = "encoded"
  /\ UNCHANGED <<codecMessage, codecOpcode, codecDecoded, maskPayload, maskKey>>
  /\ UNCHANGED <<clientVars, envVars, parserVars>>

MaskNext == PeerEncode \/ CodecDecode

SpecMask == MaskInit /\ [][MaskNext]_vars

\* ------------------------------------------------------------------------
\* Specification of the parser's decode: a payload is handed to it in chunks
\* ------------------------------------------------------------------------

\* a text that is no JSON, however it is continued:
\* '{"type"}'
ObjectWithoutValue ==
  <<123, 34, 116, 121, 112, 101, 34, 125>>

\* a text that is no JSON, however it is continued:
\* '}{'
ClosedBeforeOpened ==
  <<125, 123>>

\* payloads that JSON.parse accepts when they are complete
ValidPayloads == {MessageEnvelope, NotificationEnvelope}

\* payloads that JSON.parse refuses when they are complete
MalformedPayloads == {ObjectWithoutValue, ClosedBeforeOpened, BinaryGarbage}

\* at how many places a payload is cut into chunks, at most
MaxCuts == 1

RECURSIVE Chunkings(_, _)
\* the ways to cut a buffer into chunks that are not empty, with at most n cuts
Chunkings(buffer, n) ==
  IF n = 0 \/ Len(buffer) < 2 THEN {<<buffer>>}
  ELSE {<<buffer>>} \cup
       UNION { {<<SubSeq(buffer, 1, i)>> \o rest :
                  rest \in Chunkings(SubSeq(buffer, i + 1, Len(buffer)), n - 1)} :
               i \in 1..(Len(buffer) - 1) }

\* what decode returns: null, a parsed value or the raw buffer
Returned(kind, json, bytes) == [kind |-> kind, json |-> json, bytes |-> bytes]

ParserInit ==
  /\ ClientInit
  /\ protocols = <<>>
  /\ CodecIdle
  /\ parserFormat \in {"json", "binary"}
  /\ parserBuffer = <<>>
  /\ parserReturned = Returned("null", JsonValue("undefined", <<>>, <<>>), <<>>)
  /\ parserErrors = 0
  /\ parserInput \in UNION {Chunkings(payload, MaxCuts) :
                              payload \in ValidPayloads \cup MalformedPayloads}
  /\ parserFed = <<>>
  /\ parserWritten = <<>>
  /\ parserHandled = <<>>
  /\ jsonErrors \in {"terse", "detailed"}

\* decode(data) (lines 266-297)
Decode(data) ==
  LET buffer   == parserBuffer \o data
      parsed   == JsonParse(BufferToString(buffer))
      nothing  == JsonValue("undefined", <<>>, <<>>)
  IN IF parserFormat = "json"
       THEN IF parsed.ok
              THEN /\ parserBuffer' = <<>>
                   /\ parserReturned' = Returned("json", parsed.value, <<>>)
                   /\ UNCHANGED parserErrors
              ELSE IF ErrorMessage(jsonErrors, parsed) = UnexpectedEnd
                THEN /\ parserBuffer' = buffer
                     /\ parserReturned' = Returned("null", nothing, <<>>)
                     /\ UNCHANGED parserErrors
                ELSE /\ parserBuffer' = <<>>
                     /\ parserReturned' = Returned("null", nothing, <<>>)
                     /\ parserErrors' = parserErrors + 1
       ELSE /\ parserBuffer' = buffer
            /\ parserReturned' = Returned("bytes", nothing, buffer)
            /\ UNCHANGED parserErrors

\* decode(data), for the next chunk of the input
ParserDecode ==
  /\ parserInput # <<>>
  /\ parserInput' = Tail(parserInput)
  /\ parserFed' = parserFed \o Head(parserInput)
  /\ Decode(Head(parserInput))
  /\ UNCHANGED <<parserFormat, jsonErrors, parserWritten, parserHandled>>
  /\ UNCHANGED <<clientVars, envVars, codecVars>>

ParserNext == ParserDecode

SpecParser == ParserInit /\ [][ParserNext]_vars

\* ------------------------------------------------------------------------
\* Specification of the parser's handleMessage: it is handed envelopes
\* ------------------------------------------------------------------------

\* the JSON texts of the payloads of the notifications: 'A', the empty
\* string, 0 and false
HandlerPayloads == {<<34, 65, 34>>, <<34, 34>>, <<48>>, FalseLiteral}

\* JSON.stringify({type: 'notification', payload, responseRequired: true}),
\* as sendNotification builds it, for a payload with this JSON text
NotificationOf(payload) ==
  SubSeq(NotificationEnvelope, 1, 33) \o payload
    \o SubSeq(NotificationEnvelope, 37, Len(NotificationEnvelope))

\* the envelopes handleMessage is handed
HandlerEnvelopes ==
  {NotificationOf(payload) : payload \in HandlerPayloads}
    \cup {MessageEnvelope, AckEnvelope}

\* whether a condition on this value holds: if (value), if (!value)
Truthy(value) ==
  CASE value.type = "undefined" -> FALSE
    [] value.type = "literal" -> value.text = TrueLiteral
    [] value.type = "number" -> \E i \in 1..Len(value.text) : value.text[i] # 48
    [] value.type = "string" -> value.text # <<>>
    [] OTHER -> TRUE

HandlerInit ==
  /\ ClientInit
  /\ protocols = <<>>
  /\ CodecIdle
  /\ parserFormat \in {"json", "binary"}
  /\ parserBuffer = <<>>
  /\ parserReturned = Returned("null", JsonValue("undefined", <<>>, <<>>), <<>>)
  /\ parserErrors = 0
  /\ parserInput \in UNION {Chunkings(envelope, MaxCuts) :
                              envelope \in HandlerEnvelopes}
  /\ parserFed = <<>>
  /\ parserWritten = <<>>
  /\ parserHandled = <<>>
  /\ jsonErrors \in {"terse", "detailed"}

\* handleMessage(data, socket) (lines 305-321) with handleNotification
\* (lines 329-346), for the next chunk of the input
HandleMessage ==
  /\ parserInput # <<>>
  /\ parserInput' = Tail(parserInput)
  /\ parserFed' = parserFed \o Head(parserInput)
  /\ Decode(Head(parserInput))
  /\ LET message == parserReturned'.json
         null    == JsonValue("literal", NullLiteral, <<>>)
         type    == Member(message, Text.type)
         payload == Member(message, Text.payload)
         return(value) == parserHandled' = Append(parserHandled, value)
     IN IF parserReturned'.kind = "null" \/
             (parserReturned'.kind = "json" /\ ~Truthy(message))
          THEN return(null) /\ UNCHANGED parserWritten
          ELSE IF type = JsonValue("string", Text.message, <<>>)
            THEN return(payload) /\ UNCHANGED parserWritten
          ELSE IF type = JsonValue("string", Text.notification, <<>>)
            THEN IF ~Truthy(payload)
                   THEN return(null) /\ UNCHANGED parserWritten
                   ELSE /\ IF Truthy(Member(message, Text.responseRequired))
                             THEN parserWritten' =
                                    Append(parserWritten, ParserEncode(AckEnvelope, 1))
                             ELSE UNCHANGED parserWritten
                        /\ return(payload)
          ELSE return(null) /\ UNCHANGED parserWritten
  /\ UNCHANGED <<parserFormat, jsonErrors>>
  /\ UNCHANGED <<clientVars, envVars, codecVars>>

HandlerNext == HandleMessage

SpecHandler == HandlerInit /\ [][HandlerNext]_vars

\* ------------------------------------------------------------------------
\* Properties of the codec
\* ------------------------------------------------------------------------

\* the length in bytes of the payload that was encoded
CodecPayloadLength == Len(BufferFrom(codecMessage))

\* C4: for a payload of length 0, 1, 125, 126, 65535, 65536 or 70000,
\* decoding what encode produced for it with opcode Text yields a frame with
\* the original payload and the opcode Text.
RoundTripText ==
  (codecPc = "decoded" /\ codecOpcode = 1
      /\ CodecPayloadLength \in {0, 1, 125, 126, 65535, 65536, 70000})
    => /\ codecDecoded # Null
       /\ codecDecoded.payload = codecMessage
       /\ codecDecoded.opcode = 1

\* the unsigned big-endian 64-bit representation of a length below 2^31
BigEndian64(n) ==
  <<0, 0, 0, 0, (n \div 16777216) % 256, (n \div 65536) % 256,
    (n \div 256) % 256, n % 256>>

\* C5: for a payload length of 65536 or more, the eight bytes after the
\* marker 127 are the unsigned big-endian 64-bit representation of the length.
LengthIsBigEndian64 ==
  (codecPc \in {"encoded", "decoded"} /\ CodecPayloadLength >= 65536)
    => SubSeq(codecFrame, 3, 10) = BigEndian64(CodecPayloadLength)

\* C6: the length form depends on the payload length alone: below 126 one
\* length byte equal to the length; from 126 to 65535 the marker 126 and a
\* 2-byte big-endian length; from 65536 the marker 127 and an 8-byte field.
LengthFormByLength ==
  codecPc \in {"encoded", "decoded"} =>
    LET n == CodecPayloadLength
        payload == BufferFrom(codecMessage)
    IN /\ n < 126 =>
            /\ codecFrame[2] = n
            /\ SubSeq(codecFrame, 3, Len(codecFrame)) = payload
       /\ (n >= 126 /\ n < 65536) =>
            /\ codecFrame[2] = 126
            /\ codecFrame[3] * 256 + codecFrame[4] = n
            /\ SubSeq(codecFrame, 5, Len(codecFrame)) = payload
       /\ n >= 65536 =>
            /\ codecFrame[2] = 127
            /\ SubSeq(codecFrame, 11, Len(codecFrame)) = payload

\* a payload at the lower boundary of the 16-bit form has been encoded
LengthFormWitness ==
  /\ codecPc = "encoded"
  /\ CodecPayloadLength = 126
  /\ SubSeq(codecFrame, 2, 4) = <<126, 0, 126>>

\* the frame is the FIN bit with the opcode, a second byte without the mask
\* bit, an extended length of 0, 2 or 8 bytes, and the payload
IsUnmaskedFinalFrame(frame, opcode, payload) ==
  /\ Len(frame) - Len(payload) \in {2, 4, 10}
  /\ frame[1] = 128 + opcode
  /\ frame[1] \div 128 = 1
  /\ frame[1] % 16 = opcode
  /\ frame[2] < 128
  /\ SubSeq(frame, Len(frame) - Len(payload) + 1, Len(frame)) = payload

\* C23: every frame _encodeFrame has produced, for every opcode and payload
\* length, has the FIN bit set and the opcode in the low four bits of its
\* first byte, the mask bit clear in its second byte, and ends with the
\* payload bytes as they are; the parser's encode gives a frame of this form
\* for the same input.
EncodedFinalUnmasked ==
  codecPc \in {"encoded", "decoded"} =>
    /\ IsUnmaskedFinalFrame(codecFrame, codecOpcode, BufferFrom(codecMessage))
    /\ IsUnmaskedFinalFrame(ParserEncode(codecMessage, codecOpcode), codecOpcode,
                            BufferFrom(codecMessage))

\* a Pong frame with a payload of the 64-bit length form has been encoded
EncodedFinalUnmaskedWitness ==
  /\ codecPc = "encoded"
  /\ codecOpcode = 10
  /\ CodecPayloadLength = 65536
  /\ SubSeq(codecFrame, 1, 2) = <<138, 127>>
  /\ Len(codecFrame) = 65546

\* ------------------------------------------------------------------------
\* Properties of the client
\* ------------------------------------------------------------------------

\* the sockets connect() has created
Connections == 2..Len(socks)

\* opcode and payload of a decoded frame
Frame(opcode, payload) == [opcode |-> opcode, payload |-> payload]

\* the frames dispatched from the data of socket s, in order
DispatchedOn(s) ==
  LET own == SelectSeq(dispatched, LAMBDA d : d.sock = s)
  IN [i \in 1..Len(own) |-> Frame(own[i].opcode, own[i].payload)]

\* the wire bytes of the frames dispatched from the data of socket s
DispatchedBytesOn(s) ==
  LET own == SelectSeq(dispatched, LAMBDA d : d.sock = s)
  IN Flatten([i \in 1..Len(own) |-> own[i].raw])

\* the frame that _decodeFrame yields for a buffer holding one whole frame
WholeFrame(buffer) ==
  LET f == DecodeFrame(buffer) IN Frame(f.opcode, f.payload)

\* The bytes the client holds between two calls of _handleData: the class
\* has no field for them, _handleData decodes the chunk it is handed.
Held == <<>>

\* C1: when the bytes of one encoded frame have reached an open connection,
\* in however many chunks, exactly that frame has been dispatched, as when
\* the frame arrives in one chunk.
ChunkingIndependent ==
  \A s \in Connections :
    socks[s].rx \in ServerFrames => DispatchedOn(s) = <<WholeFrame(socks[s].rx)>>

\* the chunk the step hands to _handleData on socket s while connected
ChunkOfStep(s) ==
  SubSeq(socks'[s].rx, Len(socks[s].rx) + 1, Len(socks'[s].rx))

\* the frames the step dispatches
DispatchedByStep ==
  LET new == SubSeq(dispatched', Len(dispatched) + 1, Len(dispatched'))
  IN [i \in 1..Len(new) |-> Frame(new[i].opcode, new[i].payload)]

\* C2: a chunk that holds two whole frames back to back, the first of them
\* no Close frame, has both of them dispatched, in wire order, by the step
\* that receives it.
EveryFrameOfChunkDispatched ==
  [][\A s \in Connections : \A f, g \in ServerFrames :
        (Len(socks') = Len(socks) /\ ChunkOfStep(s) = f \o g
           /\ WholeFrame(f).opcode # 8)
          => DispatchedByStep = <<WholeFrame(f), WholeFrame(g)>>]_vars

\* a is an initial part of b
IsPrefix(a, b) == Len(a) <= Len(b) /\ SubSeq(b, 1, Len(a)) = a

\* what socket s has received while open is the beginning of a sequence of
\* frames (the handshake response was not cut before its end)
ReceivedFramesOnly(s) ==
  \E frames \in FrameSeqs(MaxFrames) : IsPrefix(socks[s].rx, frames)

\* C3: the bytes of the frames dispatched so far, followed by the bytes
\* held for the next decode attempt, are the bytes received while open.
NoByteDiscarded ==
  \A s \in Connections :
    ReceivedFramesOnly(s) => DispatchedBytesOn(s) \o Held = socks[s].rx

\* the handshake text the step hands to _handleData on socket s
ResponseOfStep(s) ==
  Flatten(SubSeq(socks[s].inbox, 1, Len(socks[s].inbox) - Len(socks'[s].inbox)))

\* a line of the response is the header Sec-WebSocket-Accept (in any case)
\* with exactly this value
CarriesAccept(response, value) ==
  LET lines == Split(response, CRLF)
      name(n) == SubSeq(lines[n], 1, Len(SecWebSocketAccept))
      rest(n) == SubSeq(lines[n], Len(SecWebSocketAccept) + 1, Len(lines[n]))
  IN \E n \in 1..Len(lines) :
       /\ ToLowerCase(name(n)) = SecWebSocketAccept
       /\ rest(n) = ColonSpace \o value

\* C7: the client becomes connected only on a response that carries a
\* Sec-WebSocket-Accept header exactly equal to the accept value of the key
\* sent in the upgrade request of the connection.
OpenOnlyOnExactAccept ==
  [][(~connected /\ connected') =>
       \E s \in Connections :
         /\ Len(socks'[s].inbox) < Len(socks[s].inbox)
         /\ CarriesAccept(ResponseOfStep(s), GenerateAcceptValue(KeyText(s - 1)))]_vars

\* C8: when the handshake has failed (the client destroyed the socket), an
\* `error` event has been emitted.
HandshakeFailureEmitsError ==
  \A s \in Connections :
    socks[s].st = "destroyed" => \E i \in 1..Len(events) : events[i].name = "error"

\* the teardown of a connection has begun: disconnect() or a Close frame
\* ended the socket, the peer ended it, it failed or it was destroyed
TeardownBegun ==
  \E s \in Connections :
    socks[s].ended \/ socks[s].peerEnded \/ socks[s].st \in {"destroyed", "failed"}

\* C9: once the teardown has begun no heartbeat timer is running.
NoHeartbeatAfterTeardown == TeardownBegun => timers = {}

\* C10: disconnect(), called after connect(), writes one Close frame and
\* ends the socket when the connection is open, and writes nothing when the
\* connection is not open.
DisconnectWritesCloseOnlyWhenOpen ==
  [][(disconnects' = disconnects + 1 /\ Connections # {}) =>
       IF connected
         THEN /\ written' = Append(written, WriteCall(Socket, EncodeFrame(<<>>, 8)))
              /\ socks'[Socket].ended
         ELSE written' = written]_vars

\* disconnect() has run on socket s, called by the application or by
\* _handleData for a Close frame: _sendCloseFrame wrote its frame there
DisconnectCalledOn(s) ==
  \E i \in 1..Len(written) :
    written[i].sock = s /\ written[i].data = EncodeFrame(<<>>, 8)

\* the events the step emits
EmittedByStep == SubSeq(events', Len(events) + 1, Len(events'))

\* C11: once disconnect() has been called on a connection, no step emits an
\* `open`, `message` or `notification` event, whatever the transport delivers.
NoEventAfterDisconnect ==
  [][(\E s \in Connections : DisconnectCalledOn(s)) =>
       \A i \in 1..Len(EmittedByStep) :
         EmittedByStep[i].name \notin {"open", "message", "notification"}]_vars

\* the calls of socket.write the step makes
WrittenByStep == SubSeq(written', Len(written) + 1, Len(written'))

\* the step hands _handleData a frame with this opcode and payload, on a
\* connection that is open and on which disconnect() has not been called
ReceivedByStep(opcode, payload) ==
  /\ connected
  /\ ~socks[Socket].ended
  /\ Len(dispatched') = Len(dispatched) + 1
  /\ dispatched'[Len(dispatched')].sock = Socket
  /\ dispatched'[Len(dispatched')].opcode = opcode
  /\ dispatched'[Len(dispatched')].payload = payload

\* C12: a step that receives a notification envelope with responseRequired
\* true on an open connection writes exactly one frame, which carries the Ack
\* envelope, and emits exactly one `notification` event.
NotificationAcknowledged ==
  [][ReceivedByStep(2, NotificationEnvelope) =>
       /\ Len(WrittenByStep) = 1
       /\ DecodeFrame(WrittenByStep[1].data).payload = AckEnvelope
       /\ Len(EmittedByStep) = 1
       /\ EmittedByStep[1].name = "notification"]_vars

\* the payload bytes of an unmasked frame with a 7-bit length
ShortFramePayload(frame) == SubSeq(frame, 3, Len(frame))

\* C13: a step that receives a Ping frame on an open connection writes
\* exactly one frame, a Pong that carries the payload bytes of the Ping, and
\* emits no event.
PingAnsweredByPong ==
  [][\A f \in ServerFrames :
       (f[1] = 137 /\ ReceivedByStep(9, DecodeFrame(f).payload)
          /\ dispatched'[Len(dispatched')].raw = f)
         => /\ Len(WrittenByStep) = 1
            /\ WrittenByStep[1].data[1] = 138
            /\ ShortFramePayload(WrittenByStep[1].data) = ShortFramePayload(f)
            /\ EmittedByStep = <<>>]_vars

\* the client has been open before: it has emitted `open`
HasBeenOpen == \E i \in 1..Len(events) : events[i].name = "open"

\* a handshake of the client has failed: it destroyed a socket
HandshakeHasFailed == \E s \in Connections : socks[s].st = "destroyed"

\* C14: the client becomes open only if it has not been open before and no
\* handshake of it has failed, whatever connect(), disconnect() and the
\* transport do: the state is not entered a second time.
NeverOpenAgain ==
  [][(~connected /\ connected') => ~HasBeenOpen /\ ~HandshakeHasFailed]_vars

\* the connection is open: the handshake has succeeded on this.socket and
\* neither side has closed it
Open ==
  /\ connected
  /\ socks[Socket].st = "open"
  /\ ~socks[Socket].ended
  /\ ~socks[Socket].peerEnded

\* how many Ping frames the client has written to a socket that takes them
PingsWritten ==
  Len(SelectSeq(written, LAMBDA w : w.live /\ w.data = EncodeFrame(<<>>, 9)))

TransportErrorIsFatal ==
  \A s \in Connections :
    socks[s].st = "failed" =>
      /\ \E i \in 1..Len(events) : events[i].name = "error"
      /\ ~connected
      /\ timers = {}

\* how many `close` events the client has emitted
CloseEvents == Len(SelectSeq(events, LAMBDA e : e.name = "close"))

\* socket s will deliver nothing more: the peer has ended it or it has
\* failed
Over(s) == socks[s].peerEnded \/ socks[s].st = "failed"

\* disconnect() has run on socket s while the socket was in working order
DisconnectedLive(s) ==
  \E i \in 1..Len(written) :
    written[i].sock = s /\ written[i].live /\ written[i].data = EncodeFrame(<<>>, 8)

\* C17: when a connection that was open is over, ended by the peer or after
\* a local disconnect(), exactly one `close` event has been emitted.
ExactlyOneCloseEvent ==
  \A s \in Connections :
    (HasBeenOpen /\ Over(s) /\ (socks[s].peerEnded \/ DisconnectedLive(s)))
      => CloseEvents = 1

\* the response of a server that accepts the upgrade request with key k
ValidResponse(k) ==
  StatusLine101 \o AcceptHeaderName \o ColonSpace \o GenerateAcceptValue(k)
    \o CRLF \o CRLF

\* a is an initial part of b and shorter than b
IsProperPrefix(a, b) == IsPrefix(a, b) /\ Len(a) < Len(b)

\* C18: while what a connection has received of the valid handshake response
\* is the beginning of it and not all of it, the handshake has not failed:
\* the socket is not destroyed, the client waits for the rest.
SplitHandshakeCompletes ==
  \A s \in Connections :
    (socks[s].hs # <<>> /\ IsProperPrefix(socks[s].hs, ValidResponse(KeyText(s - 1))))
      => socks[s].st # "destroyed"

\* how often _sendCloseFrame has run on socket s: each run calls
\* socket.write with a Close frame and then socket.end()
TeardownsOn(s) ==
  Len(SelectSeq(written, LAMBDA w : w.sock = s /\ w.data = EncodeFrame(<<>>, 8)))

\* C29: over the life of a connection the client writes a Close frame and
\* ends the socket at most once, however often disconnect() is called and
\* whether or not a Close frame of the peer has triggered it before.
TeardownIdempotent == \A s \in Connections : TeardownsOn(s) <= 1

\* the step hands _handleData a chunk received on socket s
ChunkHandedTo(s) ==
  Len(socks'[s].hs) + Len(socks'[s].rx) > Len(socks[s].hs) + Len(socks[s].rx)

\* C31: the data of a connection causes at most one `open` event, and a
\* chunk that arrives on a connection whose handshake has not succeeded yet
\* is treated as handshake text: the step decodes no frame from it, emits no
\* `message` or `notification` event and writes no Pong frame.
OpenOnceAndFirst ==
  [][\A s \in Connections :
       /\ socks'[s].opens <= 1
       /\ (ChunkHandedTo(s) /\ socks[s].opens = 0) =>
            /\ socks'[s].rx = socks[s].rx
            /\ dispatched' = dispatched
            /\ \A i \in 1..Len(EmittedByStep) :
                 EmittedByStep[i].name \notin {"message", "notification"}
            /\ \A i \in 1..Len(WrittenByStep) :
                 WrittenByStep[i].data[1] # 138]_vars

\* C32: when the chunk that completed the handshake of a connection was the
\* valid response followed by one whole frame of the server, and the server
\* has nothing more to deliver, that frame has been dispatched.
CoalescedFrameDispatched ==
  \A s \in Connections : \A f \in ServerFrames :
    (socks[s].opens = 1 /\ socks[s].inbox = <<>>
       /\ socks[s].hs = ValidResponse(KeyText(s - 1)) \o f)
      => DispatchedOn(s) = <<WholeFrame(f)>>

\* ------------------------------------------------------------------------
\* Properties of the parser
\* ------------------------------------------------------------------------

\* what decode was handed so far is the beginning of a valid payload and not
\* all of it
FedTruncated == \E payload \in ValidPayloads : IsProperPrefix(parserFed, payload)

\* C19: with the structured format, as long as what decode was handed is a
\* truncated valid payload it has reported no error and its buffer holds all
\* of it; once it was handed a whole malformed payload it has reported an
\* error and its buffer is empty.
IncompleteIsNotMalformed ==
  (parserFormat = "json" /\ parserFed # <<>>) =>
    /\ FedTruncated => (parserErrors = 0 /\ parserBuffer = parserFed)
    /\ parserFed \in MalformedPayloads => (parserErrors > 0 /\ parserBuffer = <<>>)

\* ------------------------------------------------------------------------
\* Properties of the decoder for masked frames
\* ------------------------------------------------------------------------

\* C20: the payload _decodeFrame returns for a masked frame is, as bytes, the
\* payload the peer masked, for every payload and every key.
MaskingInvertible ==
  (codecPc = "decoded" /\ maskKey # <<>>) =>
    /\ codecDecoded # Null
    /\ BufferFrom(codecDecoded.payload) = maskPayload

\* ------------------------------------------------------------------------
\* Properties of the client with an application that sends
\* ------------------------------------------------------------------------

\* the text is the JSON of an envelope of this type that carries the string p
IsEnvelope(text, type, p) ==
  LET parsed == JsonParse(text) IN
  /\ parsed.ok
  /\ Member(parsed.value, Text.type) = JsonValue("string", type, <<>>)
  /\ Member(parsed.value, Text.payload) = JsonValue("string", p, <<>>)

\* the step is the call op(arg) of the application, on an open connection
CalledOnOpen(op, arg) == Open /\ calls' = Append(calls, Call(op, arg))

\* C21: sendMessage(p) on an open connection writes exactly one frame, whose
\* payload is an envelope of type message that carries p, and
\* sendNotification(p) writes exactly one frame, whose payload is an envelope
\* of type notification that carries p.
SendWrapsInEnvelope ==
  [][\A p \in AppPayloads :
       /\ CalledOnOpen("sendMessage", p) =>
            /\ Len(WrittenByStep) = 1
            /\ IsEnvelope(DecodeFrame(WrittenByStep[1].data).payload,
                          Text.message, p)
       /\ CalledOnOpen("sendNotification", p) =>
            /\ Len(WrittenByStep) = 1
            /\ IsEnvelope(DecodeFrame(WrittenByStep[1].data).payload,
                          Text.notification, p)]_vars

\* the step is a call of sendMessage, sendNotification, ping or pong by the
\* application
SendCalledByStep ==
  /\ Len(calls') = Len(calls) + 1
  /\ calls'[Len(calls')].op \in {"sendMessage", "sendNotification", "ping", "pong"}

\* C28: a call of sendMessage, sendNotification, ping or pong while the
\* connection is not open (before the handshake has succeeded, or after the
\* connection was closed) hands no frame to a socket that takes data: no
\* byte of it reaches the wire.
NoFrameUnlessOpen ==
  [][(SendCalledByStep /\ ~Open) =>
       \A i \in 1..Len(WrittenByStep) : ~WrittenByStep[i].live]_vars

\* C30: after any sequence of connect(), handshake completion,
\* startHeartbeat(), stopHeartbeat(), disconnect() and peer end, every timer
\* that is running is the one heartbeatInterval refers to: at most one timer
\* runs, and stopHeartbeat() leaves none running.
OnlyReferencedTimerRuns ==
  /\ timers \subseteq {heartbeatInterval}
  /\ heartbeatInterval = 0 => timers = {}

\* ------------------------------------------------------------------------
\* Properties of the client that receives envelopes
\* ------------------------------------------------------------------------

\* the text is the JSON of an envelope of this type
HasType(text, type) ==
  /\ JsonParse(text).ok
  /\ Member(JsonParse(text).value, Text.type) = JsonValue("string", type, <<>>)

\* the string an envelope carries as its payload
PayloadOf(text) == Member(JsonParse(text).value, Text.payload).text

\* C22: a step that receives, on an open connection, a Text or Binary frame
\* whose payload is an envelope of type message emits exactly one event, a
\* `message` whose argument is the payload of the envelope.
MessageEnvelopeDelivered ==
  [][\A f \in ServerFrames :
       LET frame == DecodeFrame(f) IN
       (frame.opcode \in {1, 2} /\ HasType(frame.payload, Text.message)
          /\ ReceivedByStep(frame.opcode, frame.payload))
         => EmittedByStep = <<Event("message", PayloadOf(frame.payload))>>]_vars

\* the text is the JSON of an envelope whose type is neither message nor
\* notification
HasOtherType(text) ==
  /\ JsonParse(text).ok
  /\ JsonParse(text).value.type = "object"
  /\ ~HasType(text, Text.message)
  /\ ~HasType(text, Text.notification)

\* C27: a step that receives, on an open connection, a frame whose payload
\* is an envelope of a type other than message and notification (an Ack
\* envelope is one) writes nothing, emits no event and leaves the state of
\* the connection as it is.
OtherEnvelopeHasNoEffect ==
  [][\A f \in ServerFrames :
       LET frame == DecodeFrame(f) IN
       (frame.opcode \in {1, 2} /\ HasOtherType(frame.payload)
          /\ ReceivedByStep(frame.opcode, frame.payload))
         => /\ WrittenByStep = <<>>
            /\ EmittedByStep = <<>>
            /\ UNCHANGED <<connected, heartbeatInterval, timers>>
            /\ socks'[Socket].st = socks[Socket].st
            /\ socks'[Socket].ended = socks[Socket].ended]_vars

\* ------------------------------------------------------------------------
\* Properties of the parser's handleMessage
\* ------------------------------------------------------------------------

\* the value JSON.parse yields for a text
ValueOf(text) == JsonParse(text).value

\* C24: when handleMessage, with the structured format, was handed in one
\* call a notification envelope with responseRequired true, whatever its
\* payload, it has written exactly one frame, which carries the Ack envelope,
\* and has returned the payload of the notification.
AckForEveryNotification ==
  \A payload \in HandlerPayloads :
    (parserFormat = "json" /\ Len(parserHandled) = 1
       /\ parserFed = NotificationOf(payload))
      => /\ parserWritten = <<ParserEncode(AckEnvelope, 1)>>
         /\ parserHandled = <<ValueOf(payload)>>

\* ------------------------------------------------------------------------
\* Properties of the parser's decode, continued
\* ------------------------------------------------------------------------

\* what a single call of decode returns for a whole valid payload
DecodedWhole(payload) ==
  Returned("json", JsonParse(BufferToString(payload)).value, <<>>)

\* C25: with the structured format, while decode has been handed the
\* beginning of a valid payload and not all of it, its last call returned
\* null and its buffer holds every byte handed to it; once it has been handed
\* the rest, its last call returned what one call on the whole payload
\* returns and its buffer is empty.
SplitPayloadDecodes ==
  \A payload \in ValidPayloads :
    (parserFormat = "json" /\ parserFed # <<>>) =>
      /\ IsProperPrefix(parserFed, payload) =>
           (parserReturned.kind = "null" /\ parserBuffer = parserFed)
      /\ parserFed = payload =>
           (parserReturned = DecodedWhole(payload) /\ parserBuffer = <<>>)

\* C26: whenever decode has handed a value back to its caller, in either
\* format, the bytes of that value are no longer in its buffer.
ReturnedBytesConsumed ==
  parserReturned.kind \in {"json", "bytes"} => parserBuffer = <<>>

====
